---- MODULE Spec2Model ----
(***************************************************************************)
(* Half-duplex audio relay of the AIGlasses firmware sketches.             *)
(*                                                                         *)
(* Four firmware variants share the relay and are told apart by `variant`: *)
(*   WsMono   monolithic WebSocket sketch      (src/unnamed/part_000)      *)
(*   WsMod    modular WebSocket sketch         (src/C6Imp/src/main.cpp,    *)
(*            AudioManager in src/C6Imp/include/config.h, I2SManager in    *)
(*            src/C6_App_imp/include/config.h)                             *)
(*   BleMono  monolithic BLE sketch   (src/C6_App_imp/include/config.h)    *)
(*   BleMod   modular BLE sketch      (src/unnamed/part_003, BLEManager.h) *)
(*                                                                         *)
(* The WebSocket sketches dispatch transport events from ws.loop(), which  *)
(* loop() calls first: at most one event per call, always at pc = "poll".  *)
(* The BLE sketches never poll: their GATT callbacks are registered with   *)
(* the NimBLE stack in setup() and are run by the stack while loop() is    *)
(* blocked in delay() or i2s_write(portMAX_DELAY), so a callback is an     *)
(* action of its own that may fire between any two steps of loop().        *)
(*                                                                         *)
(* Specifications:                                                         *)
(*   Spec, FairSpec  the relay loop and its transport callbacks            *)
(*   I2SSpec         the I2S layer called on its own, in any order         *)
(*   BleTxSpec       the outbound BLE fragmenting of a microphone chunk    *)
(*   CodecSpec       the WebSocket session of the cellular-modem variant   *)
(*                   (src/main/WalterCOMM.cpp, src/main/audio_agent.cpp)   *)
(*   WifiSpec        the Wi-Fi station of the cellular-modem variant       *)
(*                   (src/unnamed/part_004)                                *)
(***************************************************************************)
EXTENDS Integers, Sequences, FiniteSets, TLC

\* ---- bounds of the model -------------------------------------------------
\* MaxAudioBuffer stands for MAX_AUDIO_BUFFER / MAX_AUDIO_BUFFER_SIZE
\* (200 * 1024), PlayChunk for the 2048-byte playback slice, MaxRead for
\* sizeof(micBuf).
MaxAudioBuffer == 2
PlayChunk == 1
MaxRead == 1

\* sizeof(micBuf), the largest chunk handed to the BLE sender
MaxPcmLen == 1024

\* BLE_MTU, BLE_HEADER_SIZE and the ATT overhead BLE_MAX_PAYLOAD is made of
BLE_MTU == 512
BLE_HEADER_SIZE == 2
AttOverhead == 3
BLE_MAX_PAYLOAD == BLE_MTU - AttOverhead - BLE_HEADER_SIZE

Byte == {0, 1}

Variants == {"WsMono", "WsMod", "BleMono", "BleMod"}
WsVariants == {"WsMono", "WsMod"}
BleVariants == {"BleMono", "BleMod"}
\* the sketches built on I2SManager + AudioManager
ModVariants == {"WsMod", "BleMod"}

\* the payloads the peer sends in 'A' frames: none, one byte, two bytes
Payloads == {<<>>, <<0>>, <<1, 0>>}

Min(a, b) == IF a < b THEN a ELSE b

VARIABLES
    variant,      \* which sketch runs (fixed)
    pc,           \* position of loop(): setup, poll, check, drain, finish, ptt
    connected,    \* ws.isConnected() / deviceConnected / BLEManager::connected
    audioBuffer,  \* audioBuffer[0 .. audioBufferLen), the utterance buffer
    playAudio,    \* the play-now flag
    offset,       \* playSpeaker's drain offset
    hwDriver,     \* I2S_NUM_0: "none", "rx" or "tx" driver installed
    currentMode,  \* currentI2SMode / I2SManager::currentMode
    pttPressed,   \* pttPressed / wasPressed
    played,       \* bytes handed to i2s_write in the running playback cycle
    drainStart,   \* the buffer as it was when the running cycle began
    owedE,        \* 'E' frames received with a non-empty buffer, minus cycles begun
    ioOp,         \* I2S transfer issued by the latest step of loop()
    micRead,      \* bytes the capture read of the latest step of loop() returned
    sent,         \* frame tag sent by the latest step of loop()
    rx,           \* <<tag, payload>> of the event the latest callback handled
    cfgCalls,     \* configure calls made by the latest step of loop()
    drvLog,       \* the latest two calls made to the I2S layer on its own
    pttDropped,   \* the connection dropped during the press pttPressed remembers
    bleTx,        \* the BLE link and what the latest sendAudioData notified
    wsConnected,  \* wsSession.connected of the cellular-modem variant
    wsSocket,     \* the modem socket WS_SOCKET_ID: "closed" or "open"
    wsIo,         \* the modem socket calls the latest wsSend / wsReceive made
    rxRaw,        \* bytes the latest socketReceive put into frame_data
    wsTx,         \* what the latest call handed to socketSend
    frame,        \* the WsFrame filled in by the latest parseWsFrame
    wsRet,        \* <<function, value returned>> of the latest codec call
    agentRet,     \* the latest SendAndRecieveAudio call: what it met, what it returned
    wifi          \* the Wi-Fi station of the modem firmware: WiFiConnect and its handler

vars == <<variant, pc, connected, audioBuffer, playAudio, offset, hwDriver,
          currentMode, pttPressed, played, drainStart, owedE, ioOp, micRead, sent, rx,
          cfgCalls, drvLog, pttDropped, bleTx, wsConnected, wsSocket, wsIo, rxRaw, wsTx, frame, wsRet,
          agentRet, wifi>>

\* the state of the cellular-modem variant: its WebSocket session and its
\* Wi-Fi station
codecVars == <<wsConnected, wsSocket, wsIo, rxRaw, wsTx, frame, wsRet, agentRet,
               wifi>>

\* the state of the relay sketches
relayVars == <<variant, pc, connected, audioBuffer, playAudio, offset,
               hwDriver, currentMode, pttPressed, played, drainStart, owedE,
               ioOp, micRead, sent, rx, cfgCalls, drvLog, pttDropped, bleTx>>

audioBufferLen == Len(audioBuffer)

\* ---- I2S peripheral --------------------------------------------------------
\* The port is described by the driver installed on I2S_NUM_0 and by the
\* sketch's mode tracker.
ModeOf(dir) == IF dir = "rx" THEN "MIC" ELSE "SPEAKER"

I2S == [driver |-> hwDriver, mode |-> currentMode]

\* I2SManager::uninstall
I2SManager_uninstall(s) ==
    IF s.mode # "NONE" THEN [driver |-> "none", mode |-> "NONE"] ELSE s

\* a configure call that installs without uninstalling first
Teardown_skipped(v, s) == s

\* The teardown that opens initMicrophone / initSpeaker / i2sMicInit /
\* i2sSpkInit: the port as it is when i2s_driver_install is then called.
\* I2SManager and the monolithic BLE sketch uninstall only when the tracker
\* says a driver is there; the monolithic WebSocket sketch always does.
Teardown(v, s) ==
    CASE v \in ModVariants -> IF s.mode # "NONE" THEN I2SManager_uninstall(s) ELSE s
      [] v = "BleMono"     -> IF s.mode # "NONE" THEN [s EXCEPT !.driver = "none"] ELSE s
      [] v = "WsMono"      -> [s EXCEPT !.driver = "none"]

\* i2s_driver_install answers ESP_OK: the port is free and the driver did
\* not fail for a reason of its own (instOk)
InstallOk(s, instOk) == s.driver = "none" /\ instOk

\* I2SManager::initMicrophone (dir = "rx") and I2SManager::initSpeaker
\* (dir = "tx") after the teardown: a failed install or a failed i2s_set_pin
\* returns false at once, leaving the tracker at NONE.
I2SManager_install(dir, s, instOk, pinOk) ==
    IF ~InstallOk(s, instOk) THEN s
    ELSE IF ~pinOk THEN [s EXCEPT !.driver = dir]
    ELSE [driver |-> dir, mode |-> ModeOf(dir)]

\* i2sMicInit / i2sSpkInit of the monolithic BLE sketch after the teardown:
\* errors are only logged and the tracker is set whatever happened.
BleMono_install(dir, s, instOk, pinOk) ==
    [driver |-> IF InstallOk(s, instOk) THEN dir ELSE s.driver, mode |-> ModeOf(dir)]

\* i2sMicInit / i2sSpkInit of the monolithic WebSocket sketch after the
\* teardown: errors are only logged; there is no tracker.
WsMono_install(dir, s, instOk, pinOk) ==
    [s EXCEPT !.driver = IF InstallOk(s, instOk) THEN dir ELSE s.driver]

\* the whole configure call: teardown, install, pins
I2SInit(v, dir, s, instOk, pinOk) ==
    LET s1 == Teardown(v, s)
    IN  CASE v \in ModVariants -> I2SManager_install(dir, s1, instOk, pinOk)
          [] v = "BleMono"     -> BleMono_install(dir, s1, instOk, pinOk)
          [] v = "WsMono"      -> WsMono_install(dir, s1, instOk, pinOk)

\* I2SManager::writeSpeaker: bytes written for a request of n bytes
I2SManager_writeSpeaker(s, n) == IF s.mode # "SPEAKER" THEN 0 ELSE n

\* i2s_write(I2S_NUM_0, ..., portMAX_DELAY) as the monolithic sketches call
\* it: `written` was initialised to 0 and stays 0 without a TX driver.
Mono_i2sWrite(s, n) == IF s.driver = "tx" THEN n ELSE 0

WriteSpeaker(v, s, n) ==
    IF v \in ModVariants THEN I2SManager_writeSpeaker(s, n) ELSE Mono_i2sWrite(s, n)

\* a read that goes to i2s_read whatever the tracker says
I2SManager_readGate_open(s) == TRUE

\* I2SManager::readMicrophone: is i2s_read reached at all
I2SManager_readGate(s) == s.mode = "MIC"

\* bytes a capture read returns when the DMA had `avail` bytes ready
ReadMicrophone(v, s, avail) ==
    IF v \in ModVariants
    THEN IF I2SManager_readGate(s) THEN avail ELSE 0
    ELSE IF s.driver = "rx" THEN avail ELSE 0

\* does the step reach i2s_read
ReadIssued(v, s) == IF v \in ModVariants THEN I2SManager_readGate(s) ELSE TRUE

\* ---- utterance buffer ------------------------------------------------------
\* appendAudioData testing only whether the buffer is already full
AppendAudioData_fullOnly(buf, data) ==
    IF Len(buf) >= MaxAudioBuffer THEN buf ELSE buf \o data

\* AudioManager::appendAudioData (WsMod, BleMod): the buffer after the call
AppendAudioData(buf, data) ==
    IF Len(buf) + Len(data) > MaxAudioBuffer THEN buf ELSE buf \o data

\* an 'A' handler that keeps the part of an oversized payload that still fits
WsMono_appendAudio_truncating(buf, data) ==
    buf \o SubSeq(data, 1, Min(Len(data), MaxAudioBuffer - Len(buf)))

\* onWsEvent, case WStype_BIN, tag 'A' (WsMono)
WsMono_appendAudio(buf, data) ==
    IF Len(buf) + Len(data) > MaxAudioBuffer THEN buf ELSE buf \o data

\* an 'A' handler that refuses a fragment that would exactly fill the buffer
BleMono_appendAudio_strict(buf, data) ==
    IF Len(data) > 0
    THEN IF Len(buf) + Len(data) < MaxAudioBuffer THEN buf \o data ELSE buf
    ELSE buf

\* AudioRxCallbacks::onWrite (BleMono)
BleMono_appendAudio(buf, data) ==
    IF Len(data) > 0
    THEN IF Len(buf) + Len(data) <= MaxAudioBuffer THEN buf \o data ELSE buf
    ELSE buf

\* MyBLEAudioRxCallbacks::onWrite -> handleAudioData -> onBLEAudioReceived
BleMod_appendAudio(buf, data) ==
    IF Len(data) > 0 THEN AppendAudioData(buf, data) ELSE buf

\* the buffer after an inbound 'A' frame carrying `data`
OnAudio(v, buf, data) ==
    CASE v = "WsMono"  -> WsMono_appendAudio(buf, data)
      [] v = "WsMod"   -> AppendAudioData(buf, data)
      [] v = "BleMono" -> BleMono_appendAudio(buf, data)
      [] v = "BleMod"  -> BleMod_appendAudio(buf, data)

\* an 'E' handler that raises the flag without looking at the buffer
OnEnd_always(buf, flag) == TRUE

\* the play-now flag after an inbound 'E' frame (all four sketches)
OnEnd(buf, flag) == IF Len(buf) > 0 THEN TRUE ELSE flag

\* the buffer after an inbound 'S' frame: ControlCallbacks::onWrite and
\* onBLEControlReceived clear it; onWSBinaryReceived and onWsEvent have no
\* branch for the tag.
OnStart(v, buf) == IF v \in BleVariants THEN <<>> ELSE buf

\* the buffer after a disconnect event: onWSConnectionChange,
\* ServerCallbacks::onDisconnect and onBLEConnectionChange clear it; onWsEvent's
\* case WStype_DISCONNECTED only logs.
OnDisconnect(v, buf) == IF v = "WsMono" THEN buf ELSE <<>>

\* owedE counts 0, 1, "2 or more"
OwedMore(n) == IF n < 2 THEN n + 1 ELSE n

NoEvent == <<"none", <<>>>>

Events == {"connect", "disconnect", "A", "E", "S"}

\* One transport event handled by the sketch's callback.  Frames arrive only
\* on an open connection.
Handle(ev, data) ==
    /\ CASE ev = "connect"    -> ~connected
         [] ev = "disconnect" -> connected
         [] OTHER             -> connected
    /\ connected' = CASE ev = "connect"    -> TRUE
                      [] ev = "disconnect" -> FALSE
                      [] OTHER             -> connected
    /\ audioBuffer' = CASE ev = "A"          -> OnAudio(variant, audioBuffer, data)
                        [] ev = "S"          -> OnStart(variant, audioBuffer)
                        [] ev = "disconnect" -> OnDisconnect(variant, audioBuffer)
                        [] OTHER             -> audioBuffer
    /\ playAudio' = IF ev = "E" THEN OnEnd(audioBuffer, playAudio) ELSE playAudio
    /\ owedE' = IF ev = "E" /\ Len(audioBuffer) > 0 THEN OwedMore(owedE) ELSE owedE
    /\ rx' = <<ev, data>>
    /\ pttDropped' = IF ev = "disconnect" /\ pttPressed THEN TRUE ELSE pttDropped
    /\ UNCHANGED <<variant, offset, hwDriver, currentMode, pttPressed,
                   played, drainStart, cfgCalls>>

\* ---- loop() ----------------------------------------------------------------
LoopTop(v) == IF v \in WsVariants THEN "poll" ELSE "check"

\* no central connected, no MTU reported, nothing notified, txSeqNum = 0
NoBleTx == [connected |-> FALSE, mtu |-> 0, len |-> 0, frags |-> <<>>,
            offs |-> <<>>, seq |-> 0]

\* the relay before setup() has run
RelayIdle ==
    /\ pc = "setup"
    /\ connected = FALSE
    /\ audioBuffer = <<>>
    /\ playAudio = FALSE
    /\ offset = 0
    /\ hwDriver = "none"
    /\ currentMode = "NONE"
    /\ pttPressed = FALSE
    /\ played = <<>>
    /\ drainStart = <<>>
    /\ owedE = 0
    /\ ioOp = "none"
    /\ micRead = 0
    /\ sent = "none"
    /\ rx = NoEvent
    /\ cfgCalls = 0
    /\ drvLog = <<>>
    /\ pttDropped = FALSE
    /\ bleTx = NoBleTx

\* an empty socket, nothing sent, no frame parsed, no call made
NoRaw == [hdr |-> <<>>, len |-> 0, got |-> 0]
NoTx == [opcode |-> 0, len |-> 0, pat |-> <<0, 0, 0, 0>>, hdr |-> <<>>,
         wire |-> <<>>, ret |-> FALSE, fail |-> "none"]
NoFrame == [src |-> "none"]
NoRet == <<"none", FALSE, "none">>
NoAgent == [fn |-> "none"]

\* WiFiConnect not called yet: s_retry_num = 0, no event group, no handler
\* registered, the station not started
NoWifi == [phase |-> "idle", s_retry_num |-> 0, group |-> "none", bits |-> {},
           handlers |-> FALSE, link |-> "off", authmode |-> "none",
           timeout |-> FALSE, tries |-> 0, ev |-> "none", sig |-> "none"]

\* wsSession = {false, ...}: the session starts not connected
CodecIdle ==
    /\ wsConnected = FALSE
    /\ wsSocket = "closed"
    /\ wsIo = {}
    /\ rxRaw = NoRaw
    /\ wsTx = NoTx
    /\ frame = NoFrame
    /\ wsRet = NoRet
    /\ agentRet = NoAgent
    /\ wifi = NoWifi

Init ==
    /\ variant \in Variants
    /\ RelayIdle
    /\ CodecIdle

SetI2S(s) ==
    /\ hwDriver' = s.driver
    /\ currentMode' = s.mode

\* setup(): the microphone is configured before the transport is started
Setup ==
    /\ pc = "setup"
    /\ \E instOk \in BOOLEAN, pinOk \in BOOLEAN :
          SetI2S(I2SInit(variant, "rx", I2S, instOk, pinOk))
    /\ cfgCalls' = 1
    /\ pc' = LoopTop(variant)
    /\ ioOp' = "none"
    /\ micRead' = 0
    /\ sent' = "none"
    /\ rx' = NoEvent
    /\ UNCHANGED <<variant, connected, audioBuffer, playAudio, offset,
                   pttPressed, played, drainStart, owedE>>
    /\ UNCHANGED <<pttDropped, drvLog, bleTx, codecVars>>

\* ws.loop() / networkManager.loop(): at most one event is dispatched
WsPoll ==
    /\ pc = "poll"
    /\ variant \in WsVariants
    /\ \/ /\ rx' = NoEvent
          /\ UNCHANGED <<variant, connected, audioBuffer, playAudio, offset,
                         hwDriver, currentMode, pttPressed, played,
                         drainStart, owedE, cfgCalls, pttDropped>>
       \/ \E ev \in Events, data \in Payloads :
             /\ ev # "A" => data = <<>>
             /\ Handle(ev, data)
    /\ pc' = "check"
    /\ ioOp' = "none"
    /\ micRead' = 0
    /\ sent' = "none"
    /\ UNCHANGED <<drvLog, bleTx, codecVars>>

\* a GATT or server callback run by the BLE stack
BleCallback ==
    /\ pc # "setup"
    /\ variant \in BleVariants
    /\ \E ev \in Events, data \in Payloads :
          /\ ev # "A" => data = <<>>
          /\ Handle(ev, data)
    /\ UNCHANGED <<pc, ioOp, micRead, sent>>
    /\ UNCHANGED <<drvLog, bleTx, codecVars>>

\* playSpeaker / playSpeakerBuffer up to the drain loop, as loop() calls it
\* when the play-now flag is set.  An empty buffer returns at once; loop()
\* then clears the buffer (modular sketches) and the flag.  Otherwise the
\* speaker is configured, its status is not looked at, and the drain begins.
Check ==
    /\ pc = "check"
    /\ UNCHANGED <<pttDropped, drvLog, bleTx, codecVars>>
    /\ ioOp' = "none"
    /\ micRead' = 0
    /\ sent' = "none"
    /\ rx' = NoEvent
    /\ IF ~playAudio
       THEN /\ pc' = "ptt"
            /\ cfgCalls' = 0
            /\ UNCHANGED <<variant, connected, audioBuffer, playAudio, offset,
                           hwDriver, currentMode, pttPressed, played,
                           drainStart, owedE>>
       ELSE IF audioBufferLen = 0
       THEN /\ pc' = "ptt"
            /\ playAudio' = FALSE
            /\ cfgCalls' = 0
            /\ UNCHANGED <<variant, connected, audioBuffer, offset, hwDriver,
                           currentMode, pttPressed, played, drainStart,
                           owedE>>
       ELSE /\ \E instOk \in BOOLEAN, pinOk \in BOOLEAN :
                  SetI2S(I2SInit(variant, "tx", I2S, instOk, pinOk))
            /\ cfgCalls' = 1
            /\ offset' = 0
            /\ played' = <<>>
            /\ drainStart' = audioBuffer
            /\ owedE' = IF owedE > 0 THEN owedE - 1 ELSE 0
            /\ pc' = "drain"
            /\ UNCHANGED <<variant, connected, audioBuffer, playAudio, pttPressed>>

\* a drain that hands one slice to the speaker per pass of loop()
DrainNextPc_slicePerPass(off, len) == IF off < len THEN "ptt" ELSE "finish"

\* where the drain loop goes after comparing offset with audioBufferLen
DrainNextPc(off, len) == IF off < len THEN "drain" ELSE "finish"

\* one pass of `while (offset < audioBufferLen)`: a slice of at most PlayChunk
\* bytes is handed to the speaker and offset advances by what was written
Drain ==
    /\ pc = "drain"
    /\ UNCHANGED <<pttDropped, drvLog, bleTx, codecVars>>
    /\ sent' = "none"
    /\ rx' = NoEvent
    /\ pc' = DrainNextPc(offset, audioBufferLen)
    /\ cfgCalls' = 0
    /\ IF offset < audioBufferLen
       THEN LET chunk == Min(PlayChunk, audioBufferLen - offset)
                written == WriteSpeaker(variant, I2S, chunk)
            IN  /\ played' = played \o SubSeq(audioBuffer, offset + 1, offset + written)
                /\ offset' = offset + written
                /\ ioOp' = "write"
                /\ micRead' = 0
       ELSE /\ ioOp' = "none"
            /\ micRead' = 0
            /\ UNCHANGED <<played, offset>>
    /\ UNCHANGED <<variant, connected, audioBuffer, playAudio, hwDriver, currentMode, pttPressed, drainStart, owedE>>

\* the tail of the playback cycle: the microphone is configured again, the
\* buffer is cleared and loop() resets the play-now flag
Finish ==
    /\ pc = "finish"
    /\ \E instOk \in BOOLEAN, pinOk \in BOOLEAN :
          SetI2S(I2SInit(variant, "rx", I2S, instOk, pinOk))
    /\ cfgCalls' = 1
    /\ audioBuffer' = <<>>
    /\ playAudio' = FALSE
    /\ offset' = 0
    /\ played' = <<>>
    /\ drainStart' = <<>>
    /\ pc' = "ptt"
    /\ ioOp' = "none"
    /\ micRead' = 0
    /\ sent' = "none"
    /\ rx' = NoEvent
    /\ UNCHANGED <<variant, connected, pttPressed, owedE>>
    /\ UNCHANGED <<pttDropped, drvLog, bleTx, codecVars>>

\* a release branch that sends the end marker on every idle pass
PttReleaseTag_always(was) == "E"

\* the frame the release branch of the push-to-talk step sends: the end
\* marker when the button was held on the pass before, nothing otherwise
PttReleaseTag(was) == IF was THEN "E" ELSE "none"

\* a held branch that sends an audio frame whatever the read returned
PttHeldTag_always(bytesRead) == "A"

\* the frame the held branch of the push-to-talk step sends: the chunk read
\* when the read returned bytes, nothing when it returned none
PttHeldTag(bytesRead) == IF bytesRead > 0 THEN "A" ELSE "none"

\* the rest of loop(): the connection test and the push-to-talk step
\* (handlePTT in the modular sketches).  `pressed` is the debounced button,
\* `avail` the bytes the DMA has ready for this read.
Ptt ==
    /\ pc = "ptt"
    /\ pc' = LoopTop(variant)
    /\ rx' = NoEvent
    /\ cfgCalls' = 0
    /\ IF ~connected
       THEN /\ ioOp' = "none"
            /\ micRead' = 0
            /\ sent' = "none"
            /\ UNCHANGED <<pttPressed, pttDropped>>
       ELSE \E pressed \in BOOLEAN, avail \in 0..MaxRead :
              IF ~pressed
              THEN /\ sent' = PttReleaseTag(pttPressed)
                   /\ pttPressed' = FALSE
                   /\ pttDropped' = FALSE
                   /\ ioOp' = "none"
                   /\ micRead' = 0
              ELSE /\ pttPressed' = TRUE
                   /\ pttDropped' = (pttPressed /\ pttDropped)
                   /\ ioOp' = IF ReadIssued(variant, I2S) THEN "read" ELSE "none"
                   /\ micRead' = ReadMicrophone(variant, I2S, avail)
                   /\ sent' = PttHeldTag(ReadMicrophone(variant, I2S, avail))
    /\ UNCHANGED <<variant, connected, audioBuffer, playAudio, offset, hwDriver,
                   currentMode, played, drainStart, owedE>>
    /\ UNCHANGED <<drvLog, bleTx, codecVars>>

MainLoop == Setup \/ WsPoll \/ Check \/ Drain \/ Finish \/ Ptt

Next == MainLoop \/ BleCallback

Spec == Init /\ [][Next]_vars

\* loop() is called again and again by the Arduino core: the main loop always
\* takes its next step.  Nothing is assumed about the peer or the BLE stack.
FairSpec == Spec /\ WF_vars(MainLoop)

TypeOK ==
    /\ variant \in Variants
    /\ pc \in {"setup", "poll", "check", "drain", "finish", "ptt"}
    /\ connected \in BOOLEAN
    /\ audioBuffer \in Seq(Byte)
    /\ playAudio \in BOOLEAN
    /\ offset \in 0..MaxAudioBuffer
    /\ hwDriver \in {"none", "rx", "tx"}
    /\ currentMode \in {"NONE", "MIC", "SPEAKER"}
    /\ pttPressed \in BOOLEAN
    /\ played \in Seq(Byte)
    /\ drainStart \in Seq(Byte)
    /\ owedE \in 0..2
    /\ ioOp \in {"none", "read", "write"}
    /\ micRead \in 0..MaxRead
    /\ sent \in {"none", "A", "E"}
    /\ rx \in ({"none"} \cup Events) \X Payloads
    /\ cfgCalls \in 0..1
    /\ Len(drvLog) <= 2
    /\ pttDropped \in BOOLEAN
    /\ bleTx.mtu \in 0..BLE_MTU

\* ---- the I2S layer on its own ----------------------------------------------
\* initMicrophone / initSpeaker / readMicrophone / writeSpeaker of I2SManager
\* and i2sMicInit / i2sSpkInit / i2s_read / i2s_write of the monolithic
\* sketches, called in any order.  drvLog keeps the latest two calls: the
\* function, whether the hardware steps of a configure call went right, the
\* value returned, the port after the call, the bytes transferred and whether
\* i2s_read / i2s_write was reached.

\* what a configure call returns: I2SManager answers true or false, the
\* monolithic i2sMicInit / i2sSpkInit are void
ConfigureReturns(v, dir, s, instOk, pinOk) ==
    IF v \in ModVariants
    THEN IF InstallOk(Teardown(v, s), instOk) /\ pinOk THEN "true" ELSE "false"
    ELSE "void"

\* does a write call reach i2s_write
WriteIssued(v, s) == IF v \in ModVariants THEN s.mode = "SPEAKER" ELSE TRUE

Logged(rec) == IF Len(drvLog) < 2 THEN Append(drvLog, rec) ELSE <<drvLog[2], rec>>

CallInit ==
    /\ \E dir \in {"rx", "tx"}, instOk \in BOOLEAN, pinOk \in BOOLEAN :
          /\ SetI2S(I2SInit(variant, dir, I2S, instOk, pinOk))
          /\ drvLog' = Logged([fn |-> "init", dir |-> dir,
                               hwOk |-> instOk /\ pinOk,
                               ret |-> ConfigureReturns(variant, dir, I2S, instOk, pinOk),
                               after |-> I2SInit(variant, dir, I2S, instOk, pinOk),
                               n |-> 0, issued |-> FALSE])
    /\ UNCHANGED <<variant, pc, connected, audioBuffer, playAudio, offset,
                   pttPressed, played, drainStart, owedE, ioOp, micRead, sent, rx,
                   cfgCalls, pttDropped, bleTx>>
    /\ UNCHANGED codecVars

CallRead ==
    /\ \E avail \in 0..MaxRead :
          drvLog' = Logged([fn |-> "read", dir |-> "rx", hwOk |-> TRUE,
                            ret |-> "size", after |-> I2S,
                            n |-> ReadMicrophone(variant, I2S, avail),
                            issued |-> ReadIssued(variant, I2S)])
    /\ UNCHANGED <<variant, pc, connected, audioBuffer, playAudio, offset,
                   hwDriver, currentMode, pttPressed, played, drainStart,
                   owedE, ioOp, micRead, sent, rx, cfgCalls, pttDropped, bleTx>>
    /\ UNCHANGED codecVars

CallWrite ==
    /\ \E len \in 1..PlayChunk :
          drvLog' = Logged([fn |-> "write", dir |-> "tx", hwOk |-> TRUE,
                            ret |-> "size", after |-> I2S,
                            n |-> WriteSpeaker(variant, I2S, len),
                            issued |-> WriteIssued(variant, I2S)])
    /\ UNCHANGED <<variant, pc, connected, audioBuffer, playAudio, offset,
                   hwDriver, currentMode, pttPressed, played, drainStart,
                   owedE, ioOp, micRead, sent, rx, cfgCalls, pttDropped, bleTx>>
    /\ UNCHANGED codecVars

I2SNext == CallInit \/ CallRead \/ CallWrite

I2SSpec == Init /\ [][I2SNext]_vars

\* ---- outbound BLE audio -----------------------------------------------------
\* BLEManager::sendAudioData (BleMod) and sendMicChunkViaBLE (BleMono), the
\* same loop twice: a chunk read from the microphone is cut into
\* notifications of a two-byte header ('A', txSeqNum) and at most
\* BLE_MAX_PAYLOAD bytes of audio.  bleTx.mtu is the ATT MTU the stack last
\* reported through onMTUChange for the connection (0: none reported yet);
\* bleTx.frags lists the audio bytes of each notification of the latest call.

\* the sizes sendAudioData is called with: up to sizeof(micBuf)
PcmLens == {0, 1, 19, BLE_MAX_PAYLOAD - 1, BLE_MAX_PAYLOAD, BLE_MAX_PAYLOAD + 1,
            2 * BLE_MAX_PAYLOAD, 2 * BLE_MAX_PAYLOAD + 1, MaxPcmLen}

\* the MTU values a central may settle on: the ATT default, a usual phone
\* value, the value the firmware asks for
NegotiatedMtus == {23, 185, BLE_MTU}

\* a fragment size that is always the full payload
FragSize_full(len, off) == BLE_MAX_PAYLOAD

\* `fragSize = min((size_t)BLE_MAX_PAYLOAD, len - offset)`
FragSize(len, off) == Min(BLE_MAX_PAYLOAD, len - off)

\* the fragSize of each pass of `while (offset < len)`
RECURSIVE Fragments(_, _)
Fragments(len, off) ==
    IF off < len
    THEN <<FragSize(len, off)>> \o Fragments(len, off + FragSize(len, off))
    ELSE <<>>

\* the offset each pass copies from: `memcpy(pkt + BLE_HEADER_SIZE,
\* data + offset, fragSize)`
RECURSIVE FragOffsets(_, _)
FragOffsets(len, off) ==
    IF off < len
    THEN <<off>> \o FragOffsets(len, off + FragSize(len, off))
    ELSE <<>>

\* ServerCallbacks::onConnect / onDisconnect -> handleConnection(state)
BleConnection ==
    /\ \E state \in BOOLEAN :
          /\ state # bleTx.connected
          /\ bleTx' = [bleTx EXCEPT !.connected = state, !.mtu = 0,
                                    !.len = 0, !.frags = <<>>, !.offs = <<>>]
    /\ UNCHANGED <<variant, pc, connected, audioBuffer, playAudio, offset,
                   hwDriver, currentMode, pttPressed, played, drainStart,
                   owedE, ioOp, micRead, sent, rx, cfgCalls, pttDropped, drvLog>>
    /\ UNCHANGED codecVars

\* ServerCallbacks::onMTUChange: the value is logged and not kept
OnMTUChange ==
    /\ bleTx.connected
    /\ \E mtu \in NegotiatedMtus :
          bleTx' = [bleTx EXCEPT !.mtu = mtu, !.len = 0, !.frags = <<>>,
                                 !.offs = <<>>]
    /\ UNCHANGED <<variant, pc, connected, audioBuffer, playAudio, offset,
                   hwDriver, currentMode, pttPressed, played, drainStart,
                   owedE, ioOp, micRead, sent, rx, cfgCalls, pttDropped, drvLog>>
    /\ UNCHANGED codecVars

\* sendAudioData(data, len) / sendMicChunkViaBLE(pcmData, pcmLen)
SendAudioData ==
    /\ \E len \in PcmLens :
          LET frags == IF bleTx.connected THEN Fragments(len, 0) ELSE <<>>
              offs  == IF bleTx.connected THEN FragOffsets(len, 0) ELSE <<>>
          IN  bleTx' = [bleTx EXCEPT !.len = len, !.frags = frags,
                                    !.offs = offs,
                                    !.seq = (bleTx.seq + Len(frags)) % 256]
    /\ UNCHANGED <<variant, pc, connected, audioBuffer, playAudio, offset,
                   hwDriver, currentMode, pttPressed, played, drainStart,
                   owedE, ioOp, micRead, sent, rx, cfgCalls, pttDropped, drvLog>>
    /\ UNCHANGED codecVars

BleTxNext == BleConnection \/ OnMTUChange \/ SendAudioData

BleTxInit ==
    /\ variant \in BleVariants
    /\ RelayIdle
    /\ CodecIdle

BleTxSpec == BleTxInit /\ [][BleTxNext]_vars

\* ---- WebSocket frame codec (cellular-modem variant) -------------------------
\* comm::createWsFrameHeader / parseWsFrame / wsSend / wsReceive of
\* src/main/WalterCOMM.cpp, repeated in src/unnamed/part_004 and
\* src/main/audio_agent.cpp.  Bytes are 0..255.  A payload is described by
\* its length and its first bytes: six of a payload handed to wsSend, four
\* of a payload received (only the first `len` of them count when it is
\* shorter).
WS_OP_TEXT == 1
WS_OP_BINARY == 2
WS_OP_CLOSE == 8
WS_OP_PING == 9
WS_OP_PONG == 10

\* the length codes of byte 1 that announce an extended length field
LenCode16 == 126
LenCode64 == 127
\* first payload length that no longer fits the 16-bit field
Limit16 == 65536
\* the mask bit of byte 1 and the FIN bit of byte 0
HighBit == 128
\* width in bits of size_t on the ESP32-S3
SizeTBits == 32

RECURSIVE XorBits(_, _, _)
XorBits(a, b, n) ==
    IF n = 0 THEN 0
    ELSE (((a % 2) + (b % 2)) % 2) + 2 * XorBits(a \div 2, b \div 2, n - 1)

\* a ^ b on uint8_t
Xor8(a, b) == XorBits(a, b, 8)

\* a masking loop that walks the key with a period of three bytes
maskPayload_period3(pat, key) ==
    [i \in 1..Len(pat) |-> Xor8(pat[i], key[((i - 1) % 3) + 1])]

\* maskPayload: payload[i] ^= mask_key[i % 4], on the bytes kept of the
\* payload (i counts from 0 in the code, from 1 here)
maskPayload(pat, key) ==
    [i \in 1..Len(pat) |-> Xor8(pat[i], key[((i - 1) % 4) + 1])]

\* (payload_len >> sh) & 0xFF for a size_t payload_len.  A shift by the width
\* of the type or more is undefined: the builds either give 0 or shift by
\* sh modulo the width (ub says which).
ShiftByte(len, sh, ub) ==
    IF sh < SizeTBits THEN (len \div (2 ^ sh)) % 256
    ELSE IF ub = "zero" THEN 0
    ELSE (len \div (2 ^ (sh % SizeTBits))) % 256

\* createWsFrameHeader: the header bytes for an opcode, a payload length, the
\* mask flag and the four bytes esp_random() gave for the key
createWsFrameHeader(opcode, len, mask, key, ub) ==
    LET b0 == HighBit + (opcode % 16)
        m  == IF mask THEN HighBit ELSE 0
        h  == IF len < LenCode16 THEN <<b0, m + len>>
              ELSE IF len < Limit16
                   THEN <<b0, m + LenCode16, (len \div 256) % 256, len % 256>>
              ELSE <<b0, m + LenCode64>> \o
                   [i \in 1..8 |-> ShiftByte(len, 56 - (i - 1) * 8, ub)]
    IN  IF mask THEN h \o key ELSE h

\* uint64_t values are kept as eight base-256 digits, most significant first
Zero64 == <<0, 0, 0, 0, 0, 0, 0, 0>>

\* the uint64_t holding a value below 2^31
ToU64(n) == [i \in 1..8 |-> IF i <= 4 THEN 0 ELSE (n \div (256 ^ (8 - i))) % 256]

\* does the uint64_t hold a value below 2^31, and which
IsSmall64(d) == d[1] = 0 /\ d[2] = 0 /\ d[3] = 0 /\ d[4] = 0 /\ d[5] < 128
Val64(d) == ((d[5] * 256 + d[6]) * 256 + d[7]) * 256 + d[8]

RECURSIVE AddCarry(_, _, _)
AddCarry(d, i, c) ==
    IF i = 0 \/ c = 0 THEN d
    ELSE LET sum == d[i] + c
         IN  AddCarry([d EXCEPT ![i] = sum % 256], i - 1, sum \div 256)

\* offset + frame->payload_len in uint64_t arithmetic (wraps at 2^64)
Add64(d, k) == AddCarry(d, 8, k)

\* data_len < v for a size_t data_len and a uint64_t v
LessThan64(n, d) == ~IsSmall64(d) \/ n < Val64(d)

\* data[i] of a buffer whose first bytes are hdr (0-based index); the bytes
\* after them are zero
At(hdr, i) == IF i < Len(hdr) THEN hdr[i + 1] ELSE 0

ParseFail(read) ==
    [ok |-> FALSE, fin |-> FALSE, opcode |-> 0, masked |-> FALSE,
     payload_len |-> Zero64, mask_key |-> <<0, 0, 0, 0>>, offset |-> 0,
     read |-> read]

\* a decoder that takes the payload to start right after the length field
MaskedOffset_ignoresMask(off, masked) == off

\* `offset` after the mask branch of parseWsFrame: the four key bytes are
\* stepped over when the mask bit is set
MaskedOffset(off, masked) == IF masked THEN off + 4 ELSE off

\* parseWsFrame(data, data_len, &frame): the frame it fills in, whether it
\* returned true, the offset of the payload and how many bytes of data it
\* looked at
parseWsFrame(data, data_len) ==
    IF data_len < 2 THEN ParseFail(0)
    ELSE
    LET fin      == At(data, 0) >= HighBit
        opcode   == At(data, 0) % 16
        masked   == At(data, 1) >= HighBit
        len_code == At(data, 1) % HighBit
    IN  IF len_code = LenCode16 /\ data_len < 4 THEN ParseFail(2)
        ELSE IF len_code = LenCode64 /\ data_len < 10 THEN ParseFail(2)
        ELSE
        LET off1 == IF len_code < LenCode16 THEN 2
                    ELSE IF len_code = LenCode16 THEN 4 ELSE 10
            plen == IF len_code < LenCode16 THEN ToU64(len_code)
                    ELSE IF len_code = LenCode16
                         THEN ToU64(At(data, 2) * 256 + At(data, 3))
                    ELSE [i \in 1..8 |-> At(data, 1 + i)]
        IN  IF masked /\ data_len < off1 + 4 THEN ParseFail(off1)
            ELSE
            LET off2 == MaskedOffset(off1, masked)
                key  == IF masked THEN [i \in 1..4 |-> At(data, off1 + i - 1)]
                        ELSE <<0, 0, 0, 0>>
            IN  IF LessThan64(data_len, Add64(plen, off2)) THEN ParseFail(off2)
                ELSE [ok |-> TRUE, fin |-> fin, opcode |-> opcode,
                      masked |-> masked, payload_len |-> plen,
                      mask_key |-> key, offset |-> off2, read |-> off2]

\* ---- WebSocket session ------------------------------------------------------
\* largest byte count the socket reports in the model, and the size of the
\* buffer the caller of wsReceive passes
MaxDataLen == 15
RecvBufSize == 8

\* FrameDataSize stands for sizeof(frame_data) (2048): room for the longest
\* header and less than the socket may report
FrameDataSize == 14

\* the bytes socketReceive(receiveCount, targetBufSize, targetBuf) puts into
\* targetBuf when it returns true: the count asked for, as far as the buffer
\* has room
socketReceive(receiveCount, targetBufSize) == Min(receiveCount, targetBufSize)

\* payload lengths, payload bytes and mask keys of the frames sent
SendLens == {0, 1, 125, 126, 127, 65535, 65536}
SendPat == <<65, 0, 255, 16, 7, 200>>
MaskKeys == {<<0, 0, 0, 0>>, <<18, 52, 86, 120>>}

\* what the peer may put on the socket: binary, close and ping frames and a
\* frame with the reserved opcode 3, with each length class masked or not,
\* well formed, truncated or announcing a length near 2^64
RawB0 == {130, 131, 136, 137}
RawB1 == {0, 2, 8, 9, 126, 127, 130, 254, 255}
RawExt == {<<0, 3, 0, 0, 0, 0, 0, 1>>,
           <<0, 0, 0, 0, 0, 0, 0, 1>>,
           <<255, 255, 255, 255, 255, 255, 255, 246>>,
           <<255, 255, 255, 255, 255, 255, 255, 242>>}
RawTail == <<18, 52, 86, 120>>
RawInputs ==
    {[hdr |-> <<b0, b1>> \o ext \o RawTail, len |-> n] :
        b0 \in RawB0, b1 \in RawB1, ext \in RawExt, n \in 1..MaxDataLen}

\* the handshake response found on the socket after the 2 s wait: nothing,
\* bytes containing "101", bytes without it that end in a NUL, bytes without
\* it and without a NUL
HandshakeResponses == {"none", "101", "no101-nul", "no101"}

\* strstr((char*)response, "101") != NULL.  response[512] is not initialised
\* and socketReceive does not terminate it: when the bytes received hold
\* neither "101" nor a NUL the search runs into what the stack held before,
\* and `stale` says whether "101" is found there.
HandshakeFound(resp, stale) == resp = "101" \/ (resp = "no101" /\ stale)

\* the four payload bytes seen through a pointer to data + off
PayloadAt(data, off) == [i \in 1..4 |-> At(data, off + i - 1)]

\* a session test that lets every call through
SessionUp_assumed(conn) == TRUE

\* the test wsSend and wsReceive start with: `if (!wsSession.connected)
\* return false;`
SessionUp(conn) == conn

\* the modem calls of wsSend past its connected test: none when malloc fails,
\* socketSend for the header, and for the payload
SendCalls(fail) == IF fail = "malloc" THEN {} ELSE {"socketSend"}

\* wsSend past its connected test: what reaches socketSend and the value
\* returned.  malloc(payload_len) may return NULL (it does for 0 bytes on
\* some heaps), the header and the payload are sent by two socketSend calls.
\* `fail` names the early return taken, if any.
wsSendFrame(opcode, len, pat, key, ub, mallocOk, hdrOk, payOk) ==
    LET h  == createWsFrameHeader(opcode, len, TRUE, key, ub)
        mk == SubSeq(h, Len(h) - 3, Len(h))
    IN  [opcode |-> opcode, len |-> len, pat |-> pat,
         hdr  |-> IF mallocOk /\ hdrOk THEN h ELSE <<>>,
         wire |-> IF mallocOk /\ hdrOk /\ payOk THEN maskPayload(pat, mk) ELSE <<>>,
         ret  |-> mallocOk /\ hdrOk /\ payOk,
         fail |-> IF ~mallocOk THEN "malloc"
                  ELSE IF ~hdrOk THEN "hdr"
                  ELSE IF ~payOk THEN "pay" ELSE "none"]

\* the value realtimeConnect returns and leaves in wsSession.connected: the
\* socket was configured and dialled, the upgrade request was sent, a
\* response was read and "101" was found in it
RealtimeConnectResult(cfgOk, dialOk, sendOk, rcvOk, resp, stale) ==
    /\ cfgOk /\ dialOk /\ sendOk
    /\ resp # "none" /\ rcvOk
    /\ HandshakeFound(resp, stale)

\* the socket after realtimeConnect: socketDial opens it, and every failure
\* after the dial closes it again before returning false
DialledSocket(sock, cfgOk, dialOk, ok) ==
    IF cfgOk /\ dialOk THEN (IF ok THEN "open" ELSE "closed") ELSE sock

\* realtimeConnect / RealtimeConnect, called on a session that is not
\* connected (SendAndRecieveAudio)
RealtimeConnect ==
    /\ wsRet = NoRet
    /\ ~wsConnected
    /\ \E cfgOk \in BOOLEAN, dialOk \in BOOLEAN, sendOk \in BOOLEAN,
          rcvOk \in BOOLEAN, stale \in BOOLEAN, resp \in HandshakeResponses :
          LET ok == RealtimeConnectResult(cfgOk, dialOk, sendOk, rcvOk,
                                          resp, stale)
          IN  /\ wsConnected' = ok
              /\ wsSocket' = DialledSocket(wsSocket, cfgOk, dialOk, ok)
              /\ wsRet' = <<"realtimeConnect", ok,
                            IF cfgOk /\ dialOk /\ sendOk THEN resp ELSE "unsent">>
    /\ rxRaw' = NoRaw
    /\ wsTx' = NoTx
    /\ wsIo' = {}
    /\ frame' = NoFrame
    /\ UNCHANGED <<agentRet, relayVars, wifi>>

\* wsSend(payload, payload_len, opcode) as realtimeSendAudio and the other
\* senders call it
WsSend ==
    /\ wsRet = NoRet
    /\ rxRaw' = NoRaw
    /\ frame' = NoFrame
    /\ IF ~SessionUp(wsConnected)
       THEN /\ wsTx' = NoTx
            /\ wsIo' = {}
            /\ wsRet' = <<"wsSend", FALSE, "none">>
       ELSE \E opcode \in {WS_OP_TEXT, WS_OP_BINARY}, len \in SendLens,
               key \in MaskKeys, ub \in {"zero", "mod"},
               mallocOk \in BOOLEAN, hdrOk \in BOOLEAN, payOk \in BOOLEAN :
               /\ wsTx' = wsSendFrame(opcode, len, SendPat, key, ub,
                                      mallocOk, hdrOk, payOk)
               /\ wsIo' = SendCalls(wsTx'.fail)
               /\ wsRet' = <<"wsSend", wsTx'.ret, "none">>
    /\ UNCHANGED <<wsConnected, wsSocket, agentRet, relayVars, wifi>>

\* parseWsFrame applied to the complete frame the latest wsSend put on the
\* wire: header_len + payload_len bytes
DecodeSent ==
    /\ wsRet[1] = "wsSend"
    /\ wsTx.ret
    /\ LET data == wsTx.hdr \o wsTx.wire
           p    == parseWsFrame(data, Len(wsTx.hdr) + wsTx.len)
       IN  /\ frame' = [src |-> "tx", p |-> p, pay |-> PayloadAt(data, p.offset)]
           /\ wsRet' = <<"parseWsFrame", p.ok, "none">>
    /\ UNCHANGED <<wsConnected, wsSocket, wsIo, rxRaw, wsTx, agentRet, relayVars, wifi>>

\* a close branch that leaves the session as it is
OnCloseFrame_ignored(conn) == conn

\* wsSession.connected after wsReceive has dispatched a close frame
OnCloseFrame(conn) == FALSE

\* a parse failure that is taken for the end of the session
OnParseFail_drops(conn) == FALSE

\* wsSession.connected after parseWsFrame has returned false in wsReceive:
\* the error is logged and the session is left as it is
OnParseFail(conn) == conn

\* the low 32 bits of a uint64_t fit a malloc on the target
FitsHeap(d) == d[5] < 128

\* `if (frame.payload_len > buffer_size) return false;`
PayloadTooLarge(payload_len, buffer_size) ==
    ~IsSmall64(payload_len) \/ Val64(payload_len) > buffer_size

\* how many bytes of the caller's buffer wsReceive writes, counted from its
\* start: for a text or binary frame that passes the size test the payload
\* and the NUL after it, nothing otherwise
BytesWritten(p, buffer_size) ==
    IF p.ok /\ p.opcode \in {WS_OP_TEXT, WS_OP_BINARY}
       /\ ~PayloadTooLarge(p.payload_len, buffer_size)
    THEN Val64(p.payload_len) + 1
    ELSE 0

\* the modem calls behind the frame a call sent through wsSend, if it sent
\* one (the pong of wsReceive, the close frame of realtimeDisconnect)
FrameCalls(tx) == IF tx = NoTx THEN {} ELSE SendCalls(tx.fail)

\* wsReceive(buffer, buffer_size, &received_len).  `raw` is what the socket
\* holds: socketAvailable gives raw.len and socketReceive the bytes.
WsReceive ==
    /\ wsRet = NoRet
    /\ IF ~SessionUp(wsConnected)
       THEN /\ wsRet' = <<"wsReceive", FALSE, "none">>
            /\ UNCHANGED wsConnected
            /\ wsIo' = {}
            /\ rxRaw' = NoRaw /\ frame' = NoFrame /\ wsTx' = NoTx
       ELSE \E raw \in RawInputs \cup {[hdr |-> <<>>, len |-> 0]},
               rcvOk \in BOOLEAN :
              IF raw.len = 0 \/ ~rcvOk
              THEN /\ wsRet' = <<"wsReceive", FALSE, "none">>
                   /\ UNCHANGED wsConnected
                   /\ wsIo' = IF raw.len = 0 THEN {"socketAvailable"}
                              ELSE {"socketAvailable", "socketReceive"}
                   /\ rxRaw' = NoRaw /\ frame' = NoFrame /\ wsTx' = NoTx
              ELSE LET p == parseWsFrame(raw.hdr, raw.len)
                   IN  /\ rxRaw' = [hdr |-> raw.hdr, len |-> raw.len,
                                    got |-> socketReceive(raw.len, FrameDataSize)]
                       /\ frame' = [src |-> "rx", p |-> p,
                                    pay |-> PayloadAt(raw.hdr, p.offset),
                                    wrote |-> BytesWritten(p, RecvBufSize)]
                       /\ IF ~p.ok
                          THEN /\ wsRet' = <<"wsReceive", FALSE, "parse">>
                               /\ wsTx' = NoTx
                               /\ wsConnected' = OnParseFail(wsConnected)
                          ELSE IF p.opcode \in {WS_OP_TEXT, WS_OP_BINARY}
                          THEN /\ wsRet' =
                                    IF PayloadTooLarge(p.payload_len, RecvBufSize)
                                    THEN <<"wsReceive", FALSE, "large">>
                                    ELSE <<"wsReceive", TRUE, "data">>
                               /\ wsTx' = NoTx
                               /\ UNCHANGED wsConnected
                          ELSE IF p.opcode = WS_OP_PING
                          THEN /\ wsRet' = <<"wsReceive", FALSE, "ping">>
                               /\ \E key \in MaskKeys, mallocOk \in BOOLEAN,
                                     hdrOk \in BOOLEAN, payOk \in BOOLEAN :
                                     wsTx' = IF FitsHeap(p.payload_len)
                                             THEN wsSendFrame(WS_OP_PONG,
                                                    Val64(p.payload_len),
                                                    PayloadAt(raw.hdr, p.offset),
                                                    key, "zero", mallocOk,
                                                    hdrOk, payOk)
                                             ELSE NoTx
                               /\ UNCHANGED wsConnected
                          ELSE IF p.opcode = WS_OP_CLOSE
                          THEN /\ wsRet' = <<"wsReceive", FALSE, "close">>
                               /\ wsTx' = NoTx
                               /\ wsConnected' = OnCloseFrame(wsConnected)
                          ELSE /\ wsRet' = <<"wsReceive", FALSE, "other">>
                               /\ wsTx' = NoTx
                               /\ UNCHANGED wsConnected
                       /\ wsIo' = {"socketAvailable", "socketReceive"}
                                     \cup FrameCalls(wsTx')
    /\ UNCHANGED <<wsSocket, agentRet, relayVars, wifi>>

\* the socket after realtimeDisconnect: socketClose is called only inside
\* `if (wsSession.connected)`
ClosedSocket(sock, conn) == IF conn THEN "closed" ELSE sock

\* realtimeDisconnect / RealtimeDisconnect
RealtimeDisconnect ==
    /\ wsRet = NoRet
    /\ rxRaw' = NoRaw
    /\ frame' = NoFrame
    /\ wsRet' = <<"realtimeDisconnect", TRUE, "none">>
    /\ wsConnected' = FALSE
    /\ wsSocket' = ClosedSocket(wsSocket, wsConnected)
    /\ IF wsConnected
       THEN \E key \in MaskKeys, mallocOk \in BOOLEAN, hdrOk \in BOOLEAN,
               payOk \in BOOLEAN :
               wsTx' = wsSendFrame(WS_OP_CLOSE, 0, <<0, 0, 0, 0>>, key, "zero",
                                   mallocOk, hdrOk, payOk)
       ELSE wsTx' = NoTx
    /\ wsIo' = FrameCalls(wsTx')
    /\ UNCHANGED <<agentRet, relayVars, wifi>>

\* the caller takes the result of the call it made and goes on; the codec
\* is used from one task, one call at a time
CallReturns ==
    /\ wsRet # NoRet
    /\ rxRaw' = NoRaw
    /\ wsTx' = NoTx
    /\ frame' = NoFrame
    /\ wsRet' = NoRet
    /\ agentRet' = NoAgent
    /\ wsIo' = {}
    /\ UNCHANGED <<wsConnected, wsSocket, relayVars, wifi>>

\* ---- SendAndRecieveAudio -----------------------------------------------------
\* MaxPolls stands for max_polling_time (60)
MaxPolls == 3

\* what one WsReceive poll of ReceiveAudioResponse brings: nothing usable
\* (no frame, a frame it cannot use, JSON without audio), an audio delta
\* that decodes, the response.done message, a close frame
PollOutcomes == {"none", "delta", "done", "close"}

\* what the server would answer poll by poll, one poll more than the loop
\* can make
PollScripts == [1..(MaxPolls + 1) -> PollOutcomes]

\* the `for (i = 0; i < max_polling_time && !response_complete; i++)` loop of
\* ReceiveAudioResponse from its i-th pass on (i counts from 1 here): was
\* response.done seen, how many audio chunks were collected, is the session
\* still connected, how many polls were made.  WsReceive returns false at
\* once on a session a close frame has ended.
\* a loop that goes on for one pass after the time is up
PollingOver_late(i) == i > MaxPolls + 1

\* the loop test `i < max_polling_time` fails (i counts from 1 here)
PollingOver(i) == i > MaxPolls

RECURSIVE ReceiveLoop(_, _, _, _)
ReceiveLoop(script, i, conn, chunks) ==
    IF PollingOver(i)
    THEN [complete |-> FALSE, chunks |-> chunks, conn |-> conn, polls |-> i - 1]
    ELSE LET got == IF conn THEN script[i] ELSE "none"
         IN  IF got = "done"
             THEN [complete |-> TRUE, chunks |-> chunks, conn |-> conn, polls |-> i]
             ELSE ReceiveLoop(script, i + 1, conn /\ got # "close",
                              IF got = "delta" THEN chunks + 1 ELSE chunks)

\* a receiver that hands back whatever audio it collected before the time
\* ran out
ResponseValue_partial(complete, chunks) == chunks > 0

\* does ReceiveAudioResponse return a value: not on a timeout, not when no
\* audio was collected
ResponseValue(complete, chunks) == complete /\ chunks > 0

\* RealtimeDisconnect at the end of SendAndRecieveAudio: the close frame is
\* sent only on a session still connected
ClosingFrame(conn) ==
    /\ wsSocket' = ClosedSocket("open", conn)
    /\ IF conn
       THEN \E key \in MaskKeys, mallocOk \in BOOLEAN, hdrOk \in BOOLEAN,
            payOk \in BOOLEAN :
               wsTx' = wsSendFrame(WS_OP_CLOSE, 0, <<0, 0, 0, 0>>, key, "zero",
                                   mallocOk, hdrOk, payOk)
       ELSE wsTx' = NoTx

AgentResult(value, chunks, connOk, src, sendOk, script, polls) ==
    [fn |-> "SendAndRecieveAudio", value |-> value, chunks |-> chunks,
     connOk |-> connOk, src |-> src, sendOk |-> sendOk, script |-> script,
     polls |-> polls]

\* SendAndRecieveAudio(key, model, audio_data_stream, audio_data_len,
\* file_path, print_response): connect, upload the file or the stream,
\* collect the response, disconnect.  src says what the caller provided,
\* sendOk what SendAudioFile / SendAudioStream returned.
SendAndRecieveAudio ==
    /\ wsRet = NoRet
    /\ ~wsConnected
    /\ rxRaw' = NoRaw
    /\ frame' = NoFrame
    /\ wsConnected' = FALSE
    /\ \E cfgOk \in BOOLEAN, dialOk \in BOOLEAN, hsOk \in BOOLEAN,
          rcvOk \in BOOLEAN, stale \in BOOLEAN, resp \in HandshakeResponses :
          IF ~RealtimeConnectResult(cfgOk, dialOk, hsOk, rcvOk, resp, stale)
          THEN /\ agentRet' = AgentResult(FALSE, 0, FALSE, "unused", FALSE, <<>>, 0)
               /\ wsSocket' = DialledSocket(wsSocket, cfgOk, dialOk, FALSE)
               /\ wsTx' = NoTx
          ELSE \E src \in {"file", "stream", "none"}, sendOk \in BOOLEAN :
                 IF src = "none" \/ ~sendOk
                 THEN /\ agentRet' = AgentResult(FALSE, 0, TRUE, src,
                                                 src # "none" /\ sendOk, <<>>, 0)
                      /\ ClosingFrame(TRUE)
                 ELSE \E script \in PollScripts :
                        LET r == ReceiveLoop(script, 1, TRUE, 0)
                            v == ResponseValue(r.complete, r.chunks)
                        IN  /\ agentRet' = AgentResult(v, IF v THEN r.chunks ELSE 0,
                                                       TRUE, src, TRUE, script,
                                                       r.polls)
                            /\ ClosingFrame(r.conn)
    /\ wsRet' = <<"SendAndRecieveAudio", agentRet'.value, "none">>
    /\ wsIo' = FrameCalls(wsTx')
    /\ UNCHANGED <<relayVars, wifi>>

CodecInit ==
    /\ variant = "Modem"
    /\ RelayIdle
    /\ CodecIdle

CodecNext ==
    \/ RealtimeConnect
    \/ WsSend
    \/ DecodeSent
    \/ WsReceive
    \/ RealtimeDisconnect
    \/ SendAndRecieveAudio
    \/ CallReturns

\* the calls of the codec's API in any order
CodecSpec == CodecInit /\ [][CodecNext]_vars

\* ---- Wi-Fi station (cellular-modem variant) ---------------------------------
\* WiFiConnect, WiFiEventHandler and WiFiDisconnect of src/unnamed/part_004.
\* wifi.link is the station as the Wi-Fi driver has it: "starting" after
\* esp_wifi_start until WIFI_EVENT_STA_START is delivered, "connecting"
\* after esp_wifi_connect, "associated" once an IP was obtained, "off"
\* otherwise.  wifi.tries counts the esp_wifi_connect calls the handler made
\* on disconnect events since the station last obtained an IP; wifi.ev is the
\* latest call or event and wifi.sig what its xEventGroupSetBits did.
WIFI_MAX_RETRY == 5

\* the session variables, the Wi-Fi station apart
sessionVars == <<wsConnected, wsSocket, wsIo, rxRaw, wsTx, frame, wsRet, agentRet>>

\* `if (s_retry_num < WIFI_MAX_RETRY)`
MayRetry(n) == n < WIFI_MAX_RETRY

\* what xEventGroupSetBits(s_wifi_event_group, ...) can do: it sets the bit
\* in a live group; on the handle of a group vEventGroupDelete has freed it
\* writes to freed memory, which goes unnoticed or ends in a panic and a
\* restart
SetBitsOutcomes(group) == IF group = "live" THEN {"set"} ELSE {"lost", "crash"}

\* the station after the handler has called xEventGroupSetBits for `bit`
Signalled(w, bit, sig, ev) ==
    IF sig = "crash"
    THEN [NoWifi EXCEPT !.ev = ev, !.sig = sig]
    ELSE [w EXCEPT !.bits = IF sig = "set" THEN @ \cup {bit} ELSE @,
                   !.ev = ev, !.sig = sig]

\* the events the Wi-Fi driver and the IP stack can post
WifiEvents(w) ==
    (IF w.link = "starting" THEN {"STA_START"} ELSE {})
        \cup (IF w.link \in {"connecting", "associated"}
              THEN {"STA_DISCONNECTED", "GOT_IP"} ELSE {})

\* WiFiConnect(ssid, password, timeout_ms) up to xEventGroupWaitBits: an
\* empty ssid returns false at once; otherwise the event group is created,
\* s_retry_num cleared, the handler registered and the station started, for
\* WPA2 when a password is given and as an open network when not
WiFiConnect ==
    /\ wifi.phase = "idle"
    /\ \E ssidOk \in BOOLEAN, password \in BOOLEAN, forever \in BOOLEAN :
          wifi' = IF ~ssidOk
                  THEN [wifi EXCEPT !.ev = "WiFiConnect", !.sig = "none"]
                  ELSE [phase |-> "waiting", s_retry_num |-> 0,
                        group |-> "live", bits |-> {}, handlers |-> TRUE,
                        link |-> "starting",
                        authmode |-> IF password THEN "WPA2_PSK" ELSE "OPEN",
                        timeout |-> ~forever,
                        tries |-> 0, ev |-> "WiFiConnect", sig |-> "none"]
    /\ UNCHANGED <<relayVars, sessionVars>>

\* WiFiEventHandler(arg, event_base, event_id, event_data)
WiFiEventHandler ==
    /\ wifi.handlers
    /\ \E ev \in WifiEvents(wifi) :
          CASE ev = "STA_START" ->
                 wifi' = [wifi EXCEPT !.link = "connecting", !.ev = ev,
                                      !.sig = "none"]
            [] ev = "STA_DISCONNECTED" ->
                 IF MayRetry(wifi.s_retry_num)
                 THEN wifi' = [wifi EXCEPT !.link = "connecting",
                                           !.s_retry_num = @ + 1,
                                           !.tries = @ + 1,
                                           !.ev = ev, !.sig = "none"]
                 ELSE \E sig \in SetBitsOutcomes(wifi.group) :
                        wifi' = Signalled([wifi EXCEPT !.link = "off"],
                                          "FAIL", sig, ev)
            [] ev = "GOT_IP" ->
                 \E sig \in SetBitsOutcomes(wifi.group) :
                    wifi' = Signalled([wifi EXCEPT !.link = "associated",
                                                   !.s_retry_num = 0,
                                                   !.tries = 0],
                                      "CONNECTED", sig, ev)
    /\ UNCHANGED <<relayVars, sessionVars>>

\* WiFiConnect from the return of xEventGroupWaitBits on: a bit was set or
\* the timeout ran out; on failure the handlers are unregistered and the
\* station stopped; the event group is deleted either way
WiFiConnectReturns ==
    /\ wifi.phase = "waiting"
    /\ wifi.bits # {} \/ wifi.timeout
    /\ LET success == "CONNECTED" \in wifi.bits
       IN  wifi' = [wifi EXCEPT !.phase = IF success THEN "up" ELSE "failed",
                                !.handlers = success,
                                !.link = IF success THEN @ ELSE "off",
                                !.group = "deleted",
                                !.bits = {},
                                !.ev = "return", !.sig = "none"]
    /\ UNCHANGED <<relayVars, sessionVars>>

\* WiFiDisconnect(): esp_wifi_disconnect, esp_wifi_stop, esp_wifi_deinit
WiFiDisconnect ==
    /\ wifi.phase = "up"
    /\ wifi' = [wifi EXCEPT !.phase = "stopped", !.link = "off",
                            !.ev = "WiFiDisconnect", !.sig = "none"]
    /\ UNCHANGED <<relayVars, sessionVars>>

WifiNext ==
    \/ WiFiConnect
    \/ WiFiEventHandler
    \/ WiFiConnectReturns
    \/ WiFiDisconnect

\* the Wi-Fi station of the modem firmware on its own
WifiSpec == CodecInit /\ [][WifiNext]_vars

\* ---- properties ------------------------------------------------------------
IsPrefix(a, b) == Len(a) <= Len(b) /\ SubSeq(b, 1, Len(a)) = a

\* C1: whatever 'A', 'E', 'S' frames, disconnects and playback cycles occur,
\* the utterance buffer never holds more than its capacity.
C1_BufferWithinCapacity == audioBufferLen <= MaxAudioBuffer

\* C1 witness: the buffer is at capacity and a further two-byte 'A' frame
\* has just been handled.
C1_Witness ==
    /\ audioBufferLen = MaxAudioBuffer
    /\ audioBuffer[audioBufferLen] = 0
    /\ rx = <<"A", <<1, 0>>>>

\* C2: an 'A' frame whose payload would take the length past the capacity is
\* rejected as a whole: the step that handles it leaves the buffer, length
\* and bytes, as it was.
C2_OversizedRejectedWhole ==
    [][(rx'[1] = "A" /\ audioBufferLen + Len(rx'[2]) > MaxAudioBuffer)
          => audioBuffer' = audioBuffer]_vars

\* C2 witness: one byte short of capacity, a two-byte fragment was handled
\* and the length is still one short of capacity.
C2_Witness ==
    /\ audioBufferLen = MaxAudioBuffer - 1
    /\ audioBufferLen > 0
    /\ audioBuffer[audioBufferLen] = 0
    /\ rx = <<"A", <<1, 0>>>>

\* C3: every 'E' frame received with a non-empty buffer gets a playback cycle
\* of its own: an 'E' not yet answered by a cycle is the single one the
\* play-now flag holds for the next test in loop().
C3_OneCyclePerEnd ==
    \/ owedE = 0
    \/ owedE = 1 /\ playAudio /\ pc \notin {"drain", "finish"}

\* C4: the step that handles a disconnect leaves the utterance buffer empty.
C4_DisconnectClears == [][rx'[1] = "disconnect" => audioBuffer' = <<>>]_vars

\* a step of loop() that runs a configure call (setup, start and end of a
\* playback cycle)
ConfigureStep ==
    \/ pc = "setup" /\ pc' # "setup"
    \/ pc = "check" /\ pc' = "drain"
    \/ pc = "finish" /\ pc' = "ptt"

\* C5: every configure call has torn the installed driver down by the time
\* it installs the new one, so two configurations never overlap.
C5_TeardownBeforeInstall ==
    [][ConfigureStep => Teardown(variant, I2S).driver = "none"]_vars

\* C6: capture and playback are never interleaved: a capture read or an
\* outbound 'A' frame happens only with no playback cycle open and no TX
\* driver on the port, and nothing is read or sent inside a cycle.
C6_NoInterleaving ==
    /\ (ioOp = "read" \/ sent = "A") =>
          (hwDriver # "tx" /\ played = <<>> /\ pc \notin {"drain", "finish"})
    /\ pc \in {"drain", "finish"} => (sent = "none" /\ ioOp # "read")

\* C6 witness: the button was held on the pass before, and the loop is now
\* in the middle of a drain with bytes already written.
C6_Witness ==
    /\ pc = "drain"
    /\ pttPressed
    /\ hwDriver = "tx"
    /\ played # <<>>
    /\ offset < audioBufferLen

\* C7: while a drain or the clear that ends it is in progress, no callback
\* changes the buffer or the play-now flag.
C7_NoCallbackDuringPlayback ==
    [][(pc \in {"drain", "finish"} /\ rx' # NoEvent)
          => (audioBuffer' = audioBuffer /\ playAudio' = playAudio)]_vars

\* C8: every playback cycle that begins finishes: the relay is back at the
\* push-to-talk step with an empty buffer and the flag reset.
C8_PlaybackFinishes ==
    (pc = "drain") ~> (pc = "ptt" /\ audioBufferLen = 0 /\ ~playAudio)

\* C9: a drain that has begun writes all the bytes that were buffered when
\* it began, whatever happens on the transport meanwhile.
C9_DrainRunsToCompletion == pc = "finish" => IsPrefix(drainStart, played)

\* the speaker configuration that opened the running cycle failed
SpeakerFailed ==
    IF variant \in ModVariants THEN currentMode # "SPEAKER" ELSE hwDriver # "tx"

\* C10: when configuring playback has failed, the relay writes no audio,
\* drops the utterance and is back at the push-to-talk step.
C10_FailedPlaybackFallsBack ==
    (pc = "drain" /\ SpeakerFailed) ~> (pc = "ptt" /\ audioBufferLen = 0)

\* the capture configuration that closed the latest cycle failed
MicFailed ==
    IF variant \in ModVariants THEN currentMode # "MIC" ELSE hwDriver # "rx"

\* C11: a configure call that fails at the start or at the end of a playback
\* cycle is made a second time by the same transition, so a transition that
\* ends with the peripheral not configured has called configure twice.
C11_FailedConfigureRetried ==
    /\ (pc = "drain" /\ cfgCalls > 0 /\ SpeakerFailed) => cfgCalls = 2
    /\ (pc = "ptt" /\ cfgCalls > 0 /\ MicFailed) => cfgCalls = 2

\* C12: the step that closes a playback cycle has handed to the speaker
\* exactly the bytes that were in the buffer when the cycle began, in order
\* and once each, and leaves the buffer empty.
C12_PlaysWhatWasBuffered ==
    [][(pc = "finish" /\ pc' = "ptt")
          => (played = drainStart /\ audioBuffer' = <<>>)]_vars

\* C13: the step that handles an inbound 'S' frame leaves the utterance
\* buffer empty, on every transport.
C13_StartClears == [][rx'[1] = "S" => audioBuffer' = <<>>]_vars

\* C14: the step that handles an inbound 'A' frame whose payload fits appends
\* the payload after the bytes already buffered, so the length grows by
\* exactly the payload length.
C14_FittingAudioAppended ==
    [][(rx'[1] = "A" /\ audioBufferLen + Len(rx'[2]) <= MaxAudioBuffer)
          => audioBuffer' = audioBuffer \o rx'[2]]_vars

\* C14 witness: a one-byte fragment was appended after a byte already
\* buffered, filling the buffer exactly.
C14_Witness ==
    /\ rx = <<"A", <<0>>>>
    /\ audioBuffer = <<0, 0>>

\* C15: an 'E' frame that finds the buffer empty changes nothing: its handler
\* leaves the play-now flag, the buffer and the driver as they were, and the
\* test of the flag that follows it in loop() starts no playback cycle and
\* makes no configure call.
C15_EndOnEmptyIsNoOp ==
    [][/\ (rx'[1] = "E" /\ audioBufferLen = 0)
            => /\ playAudio' = playAudio
               /\ audioBuffer' = <<>>
               /\ hwDriver' = hwDriver
               /\ currentMode' = currentMode
       /\ (rx[1] = "E" /\ audioBufferLen = 0 /\ pc = "check" /\ rx' = NoEvent)
            => /\ pc' = "ptt"
               /\ cfgCalls' = 0
               /\ audioBuffer' = <<>>
               /\ hwDriver' = hwDriver
               /\ currentMode' = currentMode]_vars

\* C15 witness: an 'E' frame has just been handled on an open connection
\* with the buffer empty and the flag down; both are as they were.
C15_Witness ==
    /\ rx = <<"E", <<>>>>
    /\ audioBufferLen = 0
    /\ ~playAudio
    /\ connected

\* C16: the push-to-talk step sends the end marker exactly when the button,
\* held on the pass before, is found released while connected; no other step
\* sends one.
C16_OneEndPerRelease ==
    [][IF pc = "ptt" /\ pc' # "ptt"
       THEN /\ connected => (sent' = "E" <=> (pttPressed /\ ~pttPressed'))
            /\ ~connected => sent' # "E"
       ELSE sent' = "E" => sent = "E"]_vars

\* C16 witness: the end marker has just been sent on a release.
C16_Witness ==
    /\ sent = "E"
    /\ ~pttPressed
    /\ connected

\* C17: parsing the frame that wsSend built for a BINARY payload (mask set)
\* succeeds and gives back the opcode, the payload length, the mask bit and,
\* through the payload pointer, the payload bytes that were passed in.
C17_RoundTrip ==
    (frame.src = "tx" /\ wsTx.opcode = WS_OP_BINARY) =>
        /\ frame.p.ok
        /\ frame.p.opcode = wsTx.opcode
        /\ frame.p.masked
        /\ frame.p.payload_len = ToU64(wsTx.len)
        /\ \A i \in 1..4 : i <= wsTx.len => frame.pay[i] = wsTx.pat[i]

\* C18: parseWsFrame looks at no byte beyond data_len, and returns true only
\* when the data_len bytes hold the whole of what the header announces: the
\* header with its length field, the mask key and the payload.
C18_ShortBufferRejected ==
    frame.src = "rx" =>
        /\ frame.p.read <= rxRaw.len
        /\ frame.p.ok =>
              /\ IsSmall64(frame.p.payload_len)
              /\ frame.p.offset + Val64(frame.p.payload_len) <= rxRaw.len

\* C19: a realtimeConnect whose handshake was sent and whose response, as
\* found on the socket after the wait, does not contain "101" returns false
\* and leaves the session not connected.
C19_NoSwitchNoSession ==
    (wsRet[1] = "realtimeConnect" /\ wsRet[3] \in {"none", "no101-nul", "no101"})
        => (~wsRet[2] /\ ~wsConnected)

\* C20: when wsReceive has parsed a frame whose opcode is close, the session
\* is no longer connected and the call has returned (false) to its caller.
C20_CloseEndsSession ==
    (wsRet[1] = "wsReceive" /\ frame.src = "rx" /\ frame.p.ok
        /\ frame.p.opcode = WS_OP_CLOSE)
        => (~wsConnected /\ wsRet = <<"wsReceive", FALSE, "close">>)

\* C20 witness: a well-formed two-byte close frame has just been received on
\* a session that was connected.
C20_Witness ==
    /\ wsRet = <<"wsReceive", FALSE, "close">>
    /\ rxRaw.len = 2
    /\ frame.p.ok
    /\ frame.p.payload_len = Zero64
    /\ ~wsConnected

\* the payload of the frame in frame_data as its sender meant it, and the
\* payload the peer reads from the frame in wsTx once it has applied the key
\* found in the header (first four bytes of each)
RxPayload ==
    IF frame.p.masked THEN [i \in 1..4 |-> Xor8(frame.pay[i], frame.p.mask_key[i])]
    ELSE frame.pay
TxKey == SubSeq(wsTx.hdr, Len(wsTx.hdr) - 3, Len(wsTx.hdr))
TxPayload == [i \in 1..4 |-> Xor8(wsTx.wire[i], TxKey[i])]

\* the frame in frame_data is whole: its header, key and payload lie within
\* the bytes received
RxWellFormed ==
    /\ frame.src = "rx"
    /\ frame.p.ok
    /\ IsSmall64(frame.p.payload_len)
    /\ frame.p.offset + Val64(frame.p.payload_len) <= rxRaw.len

\* the heap had no memory left for a payload, or the modem refused a send
TxEnvFailure ==
    \/ wsTx.fail \in {"hdr", "pay"}
    \/ wsTx.fail = "malloc" /\ wsTx.len > 0

\* C21: when wsReceive has dispatched a whole ping frame, and neither the
\* heap nor the modem failed, a pong frame has gone out in the same call
\* whose payload has the ping's length and the ping's payload bytes.
C21_PingEchoed ==
    (wsRet = <<"wsReceive", FALSE, "ping">> /\ RxWellFormed /\ ~TxEnvFailure) =>
        /\ wsTx.ret
        /\ wsTx.hdr[1] = HighBit + WS_OP_PONG
        /\ wsTx.len = Val64(frame.p.payload_len)
        /\ \A i \in 1..4 : i <= wsTx.len => TxPayload[i] = RxPayload[i]

\* C22: a wsReceive call that finds a frame it cannot parse (header, key or
\* payload cut short) returns false having looked at no byte beyond those
\* received, sent nothing and left the session connected; a frame with an
\* unknown opcode is dropped the same way; and a wsReceive call ends the
\* session only when it has parsed a frame whose opcode is close.
C22_MalformedDiscarded ==
    [][(wsRet = NoRet /\ wsRet'[1] = "wsReceive") =>
          /\ wsRet'[3] \in {"parse", "other"} =>
                /\ ~wsRet'[2]
                /\ wsConnected' = wsConnected
                /\ wsTx' = NoTx
                /\ frame'.p.read <= rxRaw'.len
          /\ (wsConnected /\ ~wsConnected') =>
                (frame'.p.ok /\ frame'.p.opcode = WS_OP_CLOSE)]_vars

\* C22 witness: a binary frame announcing a 16-bit length arrived with only
\* three bytes; the call returned false and the session is still connected.
C22_Witness ==
    /\ wsRet = <<"wsReceive", FALSE, "parse">>
    /\ rxRaw.len = 3
    /\ rxRaw.hdr[1] = HighBit + WS_OP_BINARY
    /\ rxRaw.hdr[2] = LenCode16
    /\ ~frame.p.ok
    /\ wsConnected

\* C23: the header wsSend put on the wire has the length class its payload
\* length calls for: below 126 the length itself in the 7-bit field; from
\* 126 to 65535 the code 126 and the length in two bytes, most significant
\* first; from 65536 on the code 127 and the length in eight bytes, most
\* significant first.  The mask key is all that follows.
C23_LengthClass ==
    (wsRet[1] = "wsSend" /\ wsTx.hdr # <<>>) =>
        LET n    == wsTx.len
            code == wsTx.hdr[2] % HighBit
        IN  IF n < LenCode16
            THEN code = n /\ Len(wsTx.hdr) = 2 + 4
            ELSE IF n < Limit16
            THEN /\ code = LenCode16
                 /\ wsTx.hdr[3] * 256 + wsTx.hdr[4] = n
                 /\ Len(wsTx.hdr) = 4 + 4
            ELSE /\ code = LenCode64
                 /\ Len(wsTx.hdr) = 10 + 4
                 /\ SubSeq(wsTx.hdr, 3, 10) = ToU64(n)

\* where the mask key starts in the header in wsTx, by its length code
TxKeyPos ==
    LET code == wsTx.hdr[2] % HighBit
    IN  IF code < LenCode16 THEN 2 ELSE IF code = LenCode16 THEN 4 ELSE 10

\* C24: a frame wsSend has sent has the mask bit set and its four key bytes
\* right after the length field, where the header ends; and byte i of the
\* payload on the wire is byte i of the payload passed in XORed with byte
\* i mod 4 of that key.
C24_MaskedWithHeaderKey ==
    (wsRet[1] = "wsSend" /\ wsTx.ret) =>
        /\ wsTx.hdr[2] >= HighBit
        /\ Len(wsTx.hdr) = TxKeyPos + 4
        /\ \A i \in 1..Len(wsTx.pat) :
              i <= wsTx.len =>
                 wsTx.wire[i] =
                    Xor8(wsTx.pat[i], wsTx.hdr[TxKeyPos + ((i - 1) % 4) + 1])

\* C24 witness: a 126-byte payload went out under the key 12 34 56 78; its
\* fifth byte 0x07 is on the wire as 0x15, masked with the first key byte
\* again.
C24_Witness ==
    /\ wsRet = <<"wsSend", TRUE, "none">>
    /\ wsTx.len = LenCode16
    /\ SubSeq(wsTx.hdr, 5, 8) = <<18, 52, 86, 120>>
    /\ wsTx.pat[5] = 7
    /\ wsTx.wire[5] = 21

\* C25: when parseWsFrame has returned true on the bytes received, the
\* payload offset it reports is 2, 4 or 10 for the 7-bit, 16-bit and 64-bit
\* length class, plus 4 when the mask bit is set, and the payload length it
\* reports is the number the header holds, most significant byte first.
C25_DecodeOffsets ==
    (frame.src = "rx" /\ frame.p.ok) =>
        LET code == rxRaw.hdr[2] % HighBit
            key  == IF rxRaw.hdr[2] >= HighBit THEN 4 ELSE 0
        IN  IF code < LenCode16
            THEN /\ frame.p.offset = 2 + key
                 /\ frame.p.payload_len = ToU64(code)
            ELSE IF code = LenCode16
            THEN /\ frame.p.offset = 4 + key
                 /\ frame.p.payload_len = ToU64(rxRaw.hdr[3] * 256 + rxRaw.hdr[4])
            ELSE /\ frame.p.offset = 10 + key
                 /\ frame.p.payload_len = SubSeq(rxRaw.hdr, 3, 10)

\* C25 witness: a masked binary frame of the 64-bit class announcing one
\* byte was parsed out of 15 bytes; the payload is reported at offset 14.
C25_Witness ==
    /\ frame.src = "rx"
    /\ frame.p.ok
    /\ frame.p.masked
    /\ rxRaw.hdr[2] = HighBit + LenCode64
    /\ frame.p.offset = 14
    /\ frame.p.payload_len = ToU64(1)
    /\ rxRaw.len = 15

\* the direction the configure call of a step of loop() asks for
CfgDir == IF pc = "check" THEN "tx" ELSE "rx"

\* the port is configured for dir: the driver is installed and the sketch's
\* tracker, where there is one, says so
Configured(v, s, dir) ==
    /\ s.driver = dir
    /\ v # "WsMono" => s.mode = ModeOf(dir)

\* C26: when a configure call has failed, because the driver could not be
\* installed or the pins could not be set, the port is left so that the same
\* call made again succeeds if its own install and pin steps go right.
C26_FailedConfigureRecoverable ==
    [][(ConfigureStep /\ ~Configured(variant, I2S', CfgDir)) =>
          Configured(variant, I2SInit(variant, CfgDir, I2S', TRUE, TRUE), CfgDir)]_vars

\* C27: when the capture configuration is called twice in a row, with
\* nothing between the calls and the install and pin steps of both going
\* right, the second call returns what the first did and leaves the port
\* exactly as the first left it: one RX driver installed, tracker at MIC.
C27_ConfigureCaptureIdempotent ==
    (/\ Len(drvLog) = 2
     /\ drvLog[1].fn = "init" /\ drvLog[1].dir = "rx" /\ drvLog[1].hwOk
     /\ drvLog[2].fn = "init" /\ drvLog[2].dir = "rx" /\ drvLog[2].hwOk) =>
        /\ drvLog[2].after = drvLog[1].after
        /\ drvLog[2].ret = drvLog[1].ret
        /\ Configured(variant, drvLog[1].after, "rx") =>
              /\ I2S = drvLog[1].after
              /\ Configured(variant, I2S, "rx")

\* C27 witness: I2SManager::initMicrophone was called twice in a row, both
\* calls returned true and the port holds the RX driver in MICROPHONE mode.
C27_Witness ==
    /\ variant = "WsMod"
    /\ Len(drvLog) = 2
    /\ drvLog[1].fn = "init" /\ drvLog[1].dir = "rx" /\ drvLog[1].ret = "true"
    /\ drvLog[2].fn = "init" /\ drvLog[2].dir = "rx" /\ drvLog[2].ret = "true"
    /\ hwDriver = "rx"
    /\ currentMode = "MIC"

\* the latest call made to the I2S layer
LastCall == drvLog[Len(drvLog)]

\* C28: a read made while the port is not configured for capture, and a
\* write made while it is not configured for playback, transfer no audio:
\* they return 0 bytes, and I2SManager does not even reach i2s_read /
\* i2s_write, it logs the mode error and returns.
C28_ModeGated ==
    Len(drvLog) > 0 =>
        /\ (LastCall.fn = "read" /\ ~Configured(variant, I2S, "rx")) =>
              /\ LastCall.n = 0
              /\ variant \in ModVariants => ~LastCall.issued
        /\ (LastCall.fn = "write" /\ ~Configured(variant, I2S, "tx")) =>
              /\ LastCall.n = 0
              /\ variant \in ModVariants => ~LastCall.issued

\* C28 witness: I2SManager::readMicrophone was called right after a
\* successful initSpeaker; it returned 0 without reaching i2s_read.
C28_Witness ==
    /\ variant = "BleMod"
    /\ Len(drvLog) = 2
    /\ drvLog[1].fn = "init" /\ drvLog[1].dir = "tx" /\ drvLog[1].ret = "true"
    /\ LastCall.fn = "read"
    /\ currentMode = "SPEAKER"
    /\ LastCall.n = 0
    /\ ~LastCall.issued

\* C29: once the stack has reported the MTU negotiated for the connection,
\* every audio notification carries at most that MTU less the 3 bytes of ATT
\* overhead and the 2-byte header: 507 bytes when the MTU is 512.
C29_FragmentWithinMtu ==
    bleTx.mtu > 0 =>
        \A i \in 1..Len(bleTx.frags) :
            bleTx.frags[i] <= bleTx.mtu - AttOverhead - BLE_HEADER_SIZE

\* the polls the loop of ReceiveAudioResponse can make
Polls == 1..MaxPolls

\* C30: a SendAndRecieveAudio call that returned an audio value connected,
\* was given a file or a stream, uploaded it, and met response.done within
\* its polls after at least one audio delta and before any close frame; the
\* value holds the deltas met up to there.  So a failed connect, no audio
\* provided, a failed upload, a timeout and an empty response all return
\* std::nullopt.
C30_ValueOnlyOnSuccess ==
    (agentRet.fn = "SendAndRecieveAudio" /\ agentRet.value) =>
        /\ agentRet.connOk
        /\ agentRet.src \in {"file", "stream"}
        /\ agentRet.sendOk
        /\ \E d \in Polls :
              /\ agentRet.script[d] = "done"
              /\ \A j \in 1..(d - 1) : agentRet.script[j] \notin {"done", "close"}
              /\ \E j \in 1..(d - 1) : agentRet.script[j] = "delta"
              /\ agentRet.chunks =
                    Cardinality({j \in 1..(d - 1) : agentRet.script[j] = "delta"})

\* C30 witness: a stream was uploaded and the response came as one audio
\* delta followed by response.done on the last poll the loop makes; the call
\* returned a value of one chunk.
C30_Witness ==
    /\ agentRet.fn = "SendAndRecieveAudio"
    /\ agentRet.value
    /\ agentRet.src = "stream"
    /\ agentRet.script[MaxPolls] = "done"
    /\ agentRet.chunks = 1
    /\ ~wsConnected

\* C31: no frame goes out for a press during which the connection dropped:
\* when the push-to-talk step sends an 'A' or an 'E' frame, the press that
\* pttPressed remembered when the step began, if any, has seen no disconnect.
C31_DroppedPressNotResumed ==
    [][(pc = "ptt" /\ sent' \in {"A", "E"}) => ~(pttPressed /\ pttDropped)]_vars

\* C32: an 'A' frame goes out only from a push-to-talk step taken while
\* connected, with the button found held and a capture read that returned at
\* least one byte; a step whose read returned nothing sends no 'A' frame;
\* no other step sends one.
C32_AudioOnlyWhenRead ==
    [][IF pc = "ptt" /\ pc' # "ptt"
       THEN /\ sent' = "A" => (connected /\ pttPressed' /\ ioOp' = "read"
                               /\ micRead' > 0)
            /\ micRead' = 0 => sent' # "A"
       ELSE sent' = "A" => sent = "A"]_vars

\* C32 witness: with the button held on an open connection, a read that
\* returned nothing has sent nothing.
C32_Witness ==
    /\ pttPressed
    /\ connected
    /\ ioOp = "read"
    /\ micRead = 0
    /\ sent = "none"

\* C32 second witness: a read that returned a byte has sent an 'A' frame.
C32_WitnessSent ==
    /\ pttPressed
    /\ ioOp = "read"
    /\ micRead > 0
    /\ sent = "A"

\* C33: whenever SendAndRecieveAudio returns after RealtimeConnect succeeded,
\* the session is marked not connected and the modem socket has been closed,
\* on every path, the one where the peer's close frame arrives during
\* reception included.
C33_SocketClosedOnReturn ==
    (agentRet.fn = "SendAndRecieveAudio" /\ agentRet.connOk)
        => (~wsConnected /\ wsSocket = "closed")

\* C34: while the session is not connected (before the handshake, after a
\* close frame, after realtimeDisconnect) a call of wsSend or wsReceive
\* returns false and makes no call on the modem socket: nothing is sent and
\* nothing is read.
C34_NoIoWhenNotConnected ==
    [][(wsRet = NoRet /\ ~wsConnected /\ wsRet'[1] \in {"wsSend", "wsReceive"})
          => (wsRet'[2] = FALSE /\ wsIo' = {} /\ wsTx' = NoTx /\ rxRaw' = NoRaw)]_vars

\* wsSend was called after the peer's close frame had ended the session
C34_Witness ==
    /\ ~wsConnected /\ wsSocket = "open"
    /\ wsRet = <<"wsSend", FALSE, "none">> /\ wsIo = {}

\* C35: wsReceive never parses or copies bytes beyond those socketReceive
\* put into frame_data, whatever count the socket reported as available:
\* the header bytes parsed, the payload copied into the caller's buffer and
\* the ping payload copied for the pong all lie within the bytes received.
C35_WithinReceived ==
    frame.src = "rx" =>
        /\ frame.p.read <= rxRaw.got
        /\ wsRet = <<"wsReceive", TRUE, "data">> =>
              frame.p.offset + Val64(frame.p.payload_len) <= rxRaw.got
        /\ (wsRet[3] = "ping" /\ wsTx # NoTx /\ wsTx.fail # "malloc") =>
              frame.p.offset + wsTx.len <= rxRaw.got

\* C36: wsReceive writes only within the first buffer_size bytes of the
\* caller's buffer, the terminating NUL it appends after the payload
\* included.
C36_WithinBufferSize == frame.src = "rx" => frame.wrote <= RecvBufSize

\* the call got as far as ReceiveAudioResponse
Received == agentRet.fn = "SendAndRecieveAudio" /\ agentRet.script # <<>>

\* C37: ReceiveAudioResponse ends after at most max_polling_time polls, and
\* before that only on response.done; it returns audio only if response.done
\* arrived within those polls and at least one audio delta had been decoded
\* by then, and std::nullopt otherwise.
C37_BoundedPolling ==
    Received =>
        /\ agentRet.polls \in Polls
        /\ agentRet.polls < MaxPolls => agentRet.script[agentRet.polls] = "done"
        /\ agentRet.value =>
              /\ agentRet.script[agentRet.polls] = "done"
              /\ \E j \in 1..(agentRet.polls - 1) : agentRet.script[j] = "delta"
        /\ (\A d \in Polls : agentRet.script[d] # "done") => ~agentRet.value

\* C37 witness: deltas arrived on every poll and response.done only after
\* the last one; the call made all its polls and returned std::nullopt.
C37_Witness ==
    /\ Received
    /\ agentRet.polls = MaxPolls
    /\ \A d \in Polls : agentRet.script[d] = "delta"
    /\ agentRet.script[MaxPolls + 1] = "done"
    /\ ~agentRet.value

\* C38: in the sketches that keep a mode tracker, the tracker matches the
\* driver on the port: MICROPHONE only with the capture driver installed,
\* SPEAKER only with the playback driver installed, and NONE only with no
\* driver installed, also after an install or a pin configuration failed.
C38_TrackerMatchesDriver ==
    variant # "WsMono" =>
        /\ currentMode = "MICROPHONE" => hwDriver = "rx"
        /\ currentMode = "SPEAKER" => hwDriver = "tx"
        /\ currentMode = "NONE" => hwDriver = "none"

\* C39: sendAudioData on a connected link cuts the chunk into fragments that
\* are never empty and follow one another without gap or overlap from byte 0
\* to byte len, so that their payloads put end to end are the input; the
\* loop ends after the fewest passes that can carry len bytes, none for an
\* empty chunk.
C39_FragmentsCoverInput ==
    bleTx.connected =>
        /\ Len(bleTx.offs) = Len(bleTx.frags)
        /\ \A i \in 1..Len(bleTx.frags) :
              /\ bleTx.frags[i] >= 1
              /\ bleTx.offs[i] = (IF i = 1 THEN 0
                                  ELSE bleTx.offs[i - 1] + bleTx.frags[i - 1])
              /\ bleTx.offs[i] + bleTx.frags[i] <= bleTx.len
        /\ bleTx.len > 0 =>
              /\ bleTx.frags # <<>>
              /\ bleTx.offs[Len(bleTx.offs)] + bleTx.frags[Len(bleTx.frags)]
                    = bleTx.len
        /\ Len(bleTx.frags) * BLE_MAX_PAYLOAD < bleTx.len + BLE_MAX_PAYLOAD

\* C39 witness: a full microphone chunk went out as two full fragments and
\* a short last one.
C39_Witness ==
    /\ bleTx.connected
    /\ bleTx.len = MaxPcmLen
    /\ bleTx.frags = <<BLE_MAX_PAYLOAD, BLE_MAX_PAYLOAD,
                       MaxPcmLen - 2 * BLE_MAX_PAYLOAD>>
    /\ bleTx.offs = <<0, BLE_MAX_PAYLOAD, 2 * BLE_MAX_PAYLOAD>>

\* C40: on disconnect events the handler calls esp_wifi_connect at most
\* WIFI_MAX_RETRY times without the station obtaining an IP in between; the
\* disconnect event after that is not answered with a retry but sets the
\* failure bit of the event group; and obtaining an IP puts the retry count
\* back to 0.
C40_BoundedRetries ==
    /\ wifi.tries <= WIFI_MAX_RETRY
    /\ wifi.ev = "GOT_IP" => wifi.s_retry_num = 0
    /\ (wifi.ev = "STA_DISCONNECTED" /\ wifi.link # "connecting") =>
          "FAIL" \in wifi.bits

====
